---- MODULE Spec2Model ----
(***************************************************************************)
(* The card store of app_v1.py: the JSON-lines log guarded by a FileLock   *)
(* (append_card, load_cards) and the upload ingestion of admin_new         *)
(* (secure_filename, allowed_file, unique_filename, f.save).               *)
(*                                                                         *)
(* Text is modelled character by character: a string is a sequence of      *)
(* one-character strings, the log file is the sequence of characters on    *)
(* disk, json.dumps and json.loads are the writer and the parser of the    *)
(* card's JSON text (the constant key names are left out, the values and   *)
(* the punctuation are kept).                                              *)
(***************************************************************************)
EXTENDS Integers, Sequences, FiniteSets, TLC

(* ------------------------------ bounds -------------------------------- *)

\* number of concurrent callers (threads or processes of the service)
NProcs == 2
\* number of operations started in one behaviour
MaxOps == 3
\* number of requests to /admin/new among them
MaxRequests == 2
\* number of I/O errors the environment raises in one behaviour
MaxFaults == 1
\* number of entries of request.files iterated in one behaviour
MaxFiles == 3
\* number of well-formed lines of a log that load_cards is given
MaxLines == 2

Procs == 1..NProcs
NoProc == 0

(* ------------------------------- text --------------------------------- *)

LF == "\n"
QUOTE == "\""
BSLASH == "\\"
SPACE == " "

Whitespace == {SPACE, LF}

\* length of a card id: uuid.uuid4().hex[:10]
IdLen == 10

Rep(c, n) == [i \in 1..n |-> c]

RECURSIVE lstrip(_)
lstrip(s) ==
    IF s # <<>> /\ Head(s) \in Whitespace THEN lstrip(Tail(s)) ELSE s

RECURSIVE rstrip(_)
rstrip(s) ==
    IF s # <<>> /\ s[Len(s)] \in Whitespace
    THEN rstrip(SubSeq(s, 1, Len(s) - 1))
    ELSE s

\* str.strip()
strip(s) == rstrip(lstrip(s))

(* ------------------------ json.dumps / json.loads ---------------------- *)

RECURSIVE Escape(_, _)
\* the body of a JSON string literal, from character i of s on: quote,
\* backslash and control characters are escaped, so the text holds no raw
\* line feed
Escape(s, i) ==
    IF i > Len(s) THEN <<>>
    ELSE (IF s[i] = QUOTE THEN <<BSLASH, QUOTE>>
          ELSE IF s[i] = BSLASH THEN <<BSLASH, BSLASH>>
          ELSE IF s[i] = LF THEN <<BSLASH, "n">>
          ELSE <<s[i]>>) \o Escape(s, i + 1)

DumpsStr(s) == <<QUOTE>> \o Escape(s, 1) \o <<QUOTE>>

DumpsFile(f) ==
    <<"{">> \o DumpsStr(f.name) \o <<",">> \o DumpsStr(f.url) \o <<",">>
            \o DumpsStr(f.ext) \o <<"}">>

RECURSIVE DumpsFiles(_)
DumpsFiles(fs) ==
    IF fs = <<>> THEN <<>>
    ELSE DumpsFile(Head(fs))
         \o (IF Len(fs) > 1 THEN <<",">> ELSE <<>>)
         \o DumpsFiles(Tail(fs))

\* json.dumps(card, ensure_ascii=False)
Dumps(c) ==
    <<"{">> \o DumpsStr(c.id) \o <<",">> \o DumpsStr(c.created_at)
            \o <<",">> \o DumpsStr(c.title) \o <<",">>
            \o DumpsStr(c.description) \o <<",", "[">> \o DumpsFiles(c.files)
            \o <<"]", "}">>

Fail == [ok |-> FALSE, v |-> <<>>, i |-> 0]

RECURSIVE ScanStr(_, _, _)
\* the characters of a string literal from position i, after its opening
\* quote, up to the closing quote
ScanStr(t, i, acc) ==
    IF i > Len(t) THEN Fail
    ELSE IF t[i] = QUOTE THEN [ok |-> TRUE, v |-> acc, i |-> i + 1]
    ELSE IF t[i] = LF THEN Fail
    ELSE IF t[i] = BSLASH
         THEN IF i + 1 > Len(t) THEN Fail
              ELSE IF t[i + 1] = "n" THEN ScanStr(t, i + 2, Append(acc, LF))
              ELSE IF t[i + 1] \in {QUOTE, BSLASH}
                   THEN ScanStr(t, i + 2, Append(acc, t[i + 1]))
              ELSE Fail
    ELSE ScanStr(t, i + 1, Append(acc, t[i]))

ParseStr(t, i) ==
    IF i <= Len(t) /\ t[i] = QUOTE THEN ScanStr(t, i + 1, <<>>) ELSE Fail

Expect(t, i, c) == i <= Len(t) /\ t[i] = c

ParseFile(t, i) ==
    IF ~Expect(t, i, "{") THEN Fail
    ELSE LET a == ParseStr(t, i + 1)
         IN  IF ~a.ok \/ ~Expect(t, a.i, ",") THEN Fail
             ELSE LET b == ParseStr(t, a.i + 1)
                  IN  IF ~b.ok \/ ~Expect(t, b.i, ",") THEN Fail
                      ELSE LET c == ParseStr(t, b.i + 1)
                           IN  IF ~c.ok \/ ~Expect(t, c.i, "}") THEN Fail
                               ELSE [ok |-> TRUE,
                                     v  |-> <<[name |-> a.v, url |-> b.v,
                                               ext |-> c.v]>>,
                                     i  |-> c.i + 1]

RECURSIVE ParseFiles(_, _, _)
\* the elements of the files array from position i, after its "["
ParseFiles(t, i, acc) ==
    IF Expect(t, i, "]") /\ acc = <<>>
    THEN [ok |-> TRUE, v |-> acc, i |-> i + 1]
    ELSE LET f == ParseFile(t, i)
         IN  IF ~f.ok THEN Fail
             ELSE IF Expect(t, f.i, ",")
                  THEN ParseFiles(t, f.i + 1, acc \o f.v)
             ELSE IF Expect(t, f.i, "]")
                  THEN [ok |-> TRUE, v |-> acc \o f.v, i |-> f.i + 1]
             ELSE Fail

\* the four strings of a card from position i: id, created_at, title and
\* description, each followed by a comma
ParseTexts(t, i) ==
    LET a == ParseStr(t, i)
    IN  IF ~a.ok \/ ~Expect(t, a.i, ",") THEN Fail
        ELSE LET s == ParseStr(t, a.i + 1)
             IN  IF ~s.ok \/ ~Expect(t, s.i, ",") THEN Fail
                 ELSE LET b == ParseStr(t, s.i + 1)
                      IN  IF ~b.ok \/ ~Expect(t, b.i, ",") THEN Fail
                          ELSE LET c == ParseStr(t, b.i + 1)
                               IN  IF ~c.ok \/ ~Expect(t, c.i, ",") THEN Fail
                                   ELSE [ok |-> TRUE,
                                         v  |-> <<a.v, s.v, b.v, c.v>>,
                                         i  |-> c.i + 1]

\* json.loads(line): [ok |-> FALSE] stands for the exception it raises
Loads(t) ==
    IF ~Expect(t, 1, "{") THEN Fail
    ELSE LET x == ParseTexts(t, 2)
         IN  IF ~x.ok \/ ~Expect(t, x.i, "[") THEN Fail
             ELSE LET fs == ParseFiles(t, x.i + 1, <<>>)
                  IN  IF ~fs.ok \/ ~Expect(t, fs.i, "}") \/ fs.i # Len(t)
                      THEN Fail
                      ELSE [ok |-> TRUE,
                            v  |-> [id |-> x.v[1], created_at |-> x.v[2],
                                    title |-> x.v[3],
                                    description |-> x.v[4],
                                    files |-> fs.v],
                            i  |-> fs.i + 1]

(* --------------------------- the log's lines --------------------------- *)

\* the lines a text-mode file yields when iterated (here without their
\* line feed): each ends at a line feed; an unterminated tail is the last
\* line
SplitLines(text) ==
    LET n == Len(text)
        ends == {i \in 1..n : text[i] = LF}
                \cup (IF n > 0 /\ text[n] # LF THEN {n + 1} ELSE {})
        EndOf(k) ==
            CHOOSE e \in ends : Cardinality({x \in ends : x < e}) = k - 1
        StartOf(e) ==
            IF \E x \in ends : x < e
            THEN 1 + CHOOSE x \in ends :
                         x < e /\ \A y \in ends : y < e => y <= x
            ELSE 1
    IN  [k \in 1..Cardinality(ends) |->
            SubSeq(text, StartOf(EndOf(k)), EndOf(k) - 1)]

RECURSIVE ParseLinesNoTry(_)
\* a reader without the try/except around json.loads: the exception of the
\* first line that does not parse leaves load_cards
ParseLinesNoTry(lines) ==
    IF lines = <<>> THEN [cards |-> <<>>, raised |-> FALSE]
    ELSE LET line == strip(Head(lines))
         IN  IF line = <<>> THEN ParseLinesNoTry(Tail(lines))
             ELSE LET r == Loads(line)
                  IN  IF r.ok
                      THEN LET rest == ParseLinesNoTry(Tail(lines))
                           IN  [cards  |-> IF rest.raised THEN <<>>
                                           ELSE <<r.v>> \o rest.cards,
                                raised |-> rest.raised]
                      ELSE [cards |-> <<>>, raised |-> TRUE]

RECURSIVE ParseLines(_)
\* the body of load_cards' loop over the lines of the file: blank lines
\* are passed over, a line json.loads rejects is passed over (except
\* Exception: continue), every other line adds its card; no exception of
\* json.loads leaves the loop
ParseLines(lines) ==
    IF lines = <<>> THEN [cards |-> <<>>, raised |-> FALSE]
    ELSE LET line == strip(Head(lines))
             rest == ParseLines(Tail(lines))
         IN  IF line = <<>> THEN rest
             ELSE LET r == Loads(line)
                  IN  IF r.ok
                      THEN [cards  |-> <<r.v>> \o rest.cards,
                            raised |-> rest.raised]
                      ELSE rest

\* a reader that returns the newest record first
ReadCardsNewestFirst(text) ==
    LET r == ParseLines(SplitLines(text))
    IN  [cards  |-> [i \in DOMAIN r.cards |->
                        r.cards[Len(r.cards) + 1 - i]],
         raised |-> r.raised]

\* what load_cards collects from a file holding `text`
ReadCards(text) == ParseLines(SplitLines(text))

\* what append_card hands to f.write
CardLine(c) == Dumps(c) \o <<LF>>

(* ------------------------------ sample data ---------------------------- *)

\* two values of uuid.uuid4().hex[:10]
IdA == Rep("a", IdLen)
IdB == Rep("1", IdLen)
IdSeq == <<IdA, IdB>>
Ids == {IdSeq[i] : i \in DOMAIN IdSeq}

\* a value of dt.datetime.utcnow().replace(microsecond=0).isoformat() + "Z"
Stamp ==
    <<"2", "0", "2", "4", "-", "0", "1", "-", "0", "1", "T", "0", "0", ":",
      "0", "0", ":", "0", "0", "Z">>
Stamps == {Stamp}

\* the cards handed to append_card by its direct callers: one plain, one
\* whose texts hold a quote, a line feed and a backslash
CardA ==
    [id |-> IdA, created_at |-> Stamp, title |-> <<"t">>,
     description |-> <<>>, files |-> <<>>]
CardB ==
    [id |-> IdB, created_at |-> Stamp, title |-> <<"q", QUOTE>>,
     description |-> <<LF, BSLASH>>, files |-> <<>>]
Cards == {CardA, CardB}
NoCard ==
    [id |-> <<>>, created_at |-> <<>>, title |-> <<>>, description |-> <<>>,
     files |-> <<>>]


(* ------------------------------ file names ----------------------------- *)

Upper ==
    <<"A", "B", "C", "D", "E", "F", "G", "H", "I", "J", "K", "L", "M",
      "N", "O", "P", "Q", "R", "S", "T", "U", "V", "W", "X", "Y", "Z">>
Lower ==
    <<"a", "b", "c", "d", "e", "f", "g", "h", "i", "j", "k", "l", "m",
      "n", "o", "p", "q", "r", "s", "t", "u", "v", "w", "x", "y", "z">>
Digits == <<"0", "1", "2", "3", "4", "5", "6", "7", "8", "9">>

Range(f) == {f[i] : i \in DOMAIN f}

LowerChar(c) ==
    IF c \in Range(Upper)
    THEN Lower[CHOOSE i \in DOMAIN Upper : Upper[i] = c]
    ELSE c

\* str.lower()
lower(s) == [i \in DOMAIN s |-> LowerChar(s[i])]

RECURSIVE str(_)
\* str(i) of a natural number
str(n) ==
    IF n < 10 THEN <<Digits[n + 1]>>
    ELSE str(n \div 10) \o <<Digits[(n % 10) + 1]>>

\* the position of the last "." of s, 0 when it has none
LastDot(s) ==
    IF \E i \in DOMAIN s : s[i] = "."
    THEN CHOOSE i \in DOMAIN s :
             s[i] = "." /\ \A j \in DOMAIN s : s[j] = "." => j <= i
    ELSE 0

\* filename.rsplit(".", 1)[-1]
AfterLastDot(s) == SubSeq(s, LastDot(s) + 1, Len(s))

ALLOWED_EXTENSIONS ==
    { <<"j", "p", "g">>, <<"j", "p", "e", "g">>, <<"p", "n", "g">>,
      <<"g", "i", "f">>, <<"w", "e", "b", "p">>,
      <<"m", "p", "4">>, <<"w", "e", "b", "m">>, <<"m", "o", "v">>,
      <<"p", "d", "f">>, <<"t", "x", "t">>, <<"c", "s", "v">>,
      <<"z", "i", "p">>, <<"7", "z">>, <<"r", "a", "r">>,
      <<"d", "o", "c">>, <<"d", "o", "c", "x">>, <<"x", "l", "s">>,
      <<"x", "l", "s", "x">>, <<"p", "p", "t">>, <<"p", "p", "t", "x">> }

\* the comparison without .lower()
allowed_file_exact(filename) ==
    IF LastDot(filename) = 0 THEN FALSE
    ELSE AfterLastDot(filename) \in ALLOWED_EXTENSIONS

allowed_file(filename) ==
    IF LastDot(filename) = 0 THEN FALSE
    ELSE lower(AfterLastDot(filename)) \in ALLOWED_EXTENSIONS

\* the characters werkzeug's secure_filename keeps: [A-Za-z0-9_.-]
SafeChars ==
    Range(Upper) \cup Range(Lower) \cup Range(Digits) \cup {"_", ".", "-"}

IsSafeChar(c) == c \in SafeChars

RECURSIVE JoinWords(_, _)
\* "_".join(s.split()): runs of whitespace between words become one "_",
\* whitespace at the ends goes
JoinWords(s, started) ==
    IF s = <<>> THEN <<>>
    ELSE IF Head(s) \in Whitespace
         THEN LET rest == lstrip(s)
              IN  IF rest = <<>> THEN <<>>
                  ELSE (IF started THEN <<"_">> ELSE <<>>)
                       \o JoinWords(rest, started)
    ELSE <<Head(s)>> \o JoinWords(Tail(s), TRUE)

RECURSIVE StripChars(_, _)
\* s.strip(chars)
StripChars(s, chars) ==
    IF s # <<>> /\ Head(s) \in chars THEN StripChars(Tail(s), chars)
    ELSE IF s # <<>> /\ s[Len(s)] \in chars
         THEN StripChars(SubSeq(s, 1, Len(s) - 1), chars)
    ELSE s

\* werkzeug.utils.secure_filename on a POSIX host: the path separator
\* becomes a space, words are joined by "_", characters outside
\* [A-Za-z0-9_.-] go, dots and underscores at the ends go
secure_filename(filename) ==
    LET a == [i \in DOMAIN filename |->
                 IF filename[i] = "/" THEN SPACE ELSE filename[i]]
        b == JoinWords(a, FALSE)
        c == SelectSeq(b, IsSafeChar)
    IN  StripChars(c, {".", "_"})

\* candidate = f"{base}_{i}.{ext}" if ext else f"{base}_{i}"
Candidate(base, ext, i) ==
    IF ext # <<>> THEN base \o <<"_">> \o str(i) \o <<".">> \o ext
    ELSE base \o <<"_">> \o str(i)

RECURSIVE NextFreeSkip(_, _, _, _)
\* a loop that counts before it tries: its first suffix is i + 1
NextFreeSkip(names, base, ext, i) ==
    IF Candidate(base, ext, i + 1) \in names
    THEN NextFreeSkip(names, base, ext, i + 1)
    ELSE Candidate(base, ext, i + 1)

RECURSIVE NextFree(_, _, _, _)
\* the while loop of unique_filename from i on: the first candidate that
\* is not among the names of the folder
NextFree(names, base, ext, i) ==
    IF Candidate(base, ext, i) \in names
    THEN NextFree(names, base, ext, i + 1)
    ELSE Candidate(base, ext, i)

\* a numbering that is not advanced: the first suffix is tried, whether
\* or not it is taken
unique_filename_once(names, filename) ==
    LET k == LastDot(filename)
        base == IF k = 0 THEN filename ELSE SubSeq(filename, 1, k - 1)
        ext == IF k = 0 THEN <<>> ELSE SubSeq(filename, k + 1, Len(filename))
    IN  IF filename \in names THEN Candidate(base, ext, 2) ELSE filename

\* unique_filename(folder, filename), `names` being the names for which
\* os.path.exists(os.path.join(folder, name)) holds
unique_filename(names, filename) ==
    LET k == LastDot(filename)
        base == IF k = 0 THEN filename ELSE SubSeq(filename, 1, k - 1)
        ext == IF k = 0 THEN <<>> ELSE SubSeq(filename, k + 1, Len(filename))
    IN  IF filename \in names THEN NextFree(names, base, ext, 2)
        ELSE filename

\* url_for("uploaded_file", card_id=card_id, filename=filename):
\* the route /uploads/<card_id>/<path:filename>
url_for(card_id, filename) ==
    <<"/", "u", "p", "l", "o", "a", "d", "s", "/">> \o card_id \o <<"/">>
        \o filename

\* the dictionary admin_new adds to saved_files
StoredFile(card_id, filename) ==
    [name |-> filename, url |-> url_for(card_id, filename),
     ext |-> lower(AfterLastDot(filename))]

(* ------------------------------ sample input --------------------------- *)

\* the titles and descriptions a form posts: one kept as it is, one that
\* strip() trims to "t", one that strip() empties
Titles == {<<"t">>, <<SPACE, "t", LF>>, <<SPACE>>}
Descriptions == {<<>>}

A_PNG == <<"a", ".", "p", "n", "g">>
X_EXE == <<"x", ".", "e", "x", "e">>

\* the entries of request.files: the empty field a browser sends when no
\* file is chosen, two files of the same name, one of them without
\* content, and a file type outside the allow-list
Entries ==
    { [filename |-> <<>>, data |-> <<>>],
      [filename |-> A_PNG, data |-> <<>>],
      [filename |-> A_PNG, data |-> <<1>>],
      [filename |-> X_EXE, data |-> <<2>>] }

(* ------------------------------- state -------------------------------- *)

VARIABLES
    logExists,   \* os.path.exists(cards_csv_path(app))
    logFile,     \* the characters of the log file
    lockHolder,  \* for each lock file, the caller holding it, or NoProc
    opened,      \* the callers that have the log file open
    dirs,        \* the card folders that exist under UPLOADS_DIR
    disk,        \* the files under UPLOADS_DIR: [dir, name, data]
    pc,          \* each caller's position
    op,          \* the operation each caller runs
    card,        \* append_card's argument
    buf,         \* the text f.write left in the file object's buffer
    cards,       \* load_cards' list
    raised,      \* whether the caller's operation ended with an exception
    title,       \* admin_new: the stripped title of the form
    description, \* admin_new: the stripped description of the form
    card_id,     \* admin_new: the id minted for the card
    created_at,  \* admin_new: the time the card was made
    saved_files, \* admin_new: the list of stored files
    filename,    \* admin_new: the name unique_filename returned
    flashes,     \* admin_new: the messages flashed to the user
    safe_card,   \* uploaded_file: what sanitize_id returned
    folder,      \* uploaded_file: the folder the file is served from
    response,    \* uploaded_file: the status and body of the response
    nops,        \* operations started so far
    nreqs,       \* requests to /admin/new started so far
    nfiles,      \* entries of request.files iterated so far, all requests
    faults,      \* I/O errors raised so far
    written,     \* history: the cards whose whole line reached the file
    torn,        \* history: an append ended having written part of its line
    nread,       \* history: Len(written) when the caller read the file
    nappend,     \* history: the calls of append_card so far
    lockedAt,    \* history: Len(logFile) when the caller took the lock
    wrote,       \* history: the log lines the caller's operation completed
    batch,       \* history: the entries of request.files iterated so far
    savedData,   \* history: the bytes saved for each entry of saved_files
    checked,     \* history: the folder's names when unique_filename ran
    contended,   \* history: another publish used the same folder meanwhile
    lockOrder,   \* history: the cards of the appends, as they took the lock
    lastLoad     \* history: the list the latest load_cards returned

logVars == <<logExists, logFile>>
lockVars == <<lockHolder, opened>>
upVars == <<dirs, disk>>
callVars == <<op, card, buf, cards, raised>>
reqVars ==
    <<title, description, card_id, created_at, saved_files, filename,
      flashes>>
boundVars == <<nops, nreqs, nfiles, faults>>
storeHist == <<written, torn, nread, nappend, lockedAt, wrote>>
reqHist == <<batch, savedData, checked, contended>>
serveVars == <<safe_card, folder, response>>

vars ==
    <<logVars, lockVars, upVars, pc, callVars, reqVars, boundVars, storeHist,
      reqHist, serveVars, lockOrder, lastLoad>>

\* os.path.join(app.config["DATA_DIR"], "submissions.csv")
cards_csv_path == <<"DATA_DIR", "/", "submissions.csv">>

\* append_card: FileLock(path + ".lock")
AppendLockPath == cards_csv_path \o <<".lock">>

\* a reader that locks a file of its own
LoadLockPathOwn == cards_csv_path \o <<".read.lock">>

\* load_cards: FileLock(path + ".lock")
LoadLockPath == cards_csv_path \o <<".lock">>

LockPaths == {AppendLockPath, LoadLockPath}

\* the lock path of the operation the caller runs
LockPathOf(p) == IF op[p] = "load" THEN LoadLockPath ELSE AppendLockPath

\* the caller holds the lock of the operation it runs
HoldsLock(p) == lockHolder[LockPathOf(p)] = p

\* no folder has been built, no response has been made
NoFolder == <<>>
NoResponse == [status |-> 0, data |-> <<>>]

\* no request runs and nothing has happened yet
Idle ==
    /\ lockHolder = [l \in LockPaths |-> NoProc]
    /\ opened = {}
    /\ pc = [p \in Procs |-> "idle"]
    /\ op = [p \in Procs |-> "none"]
    /\ card = [p \in Procs |-> NoCard]
    /\ buf = [p \in Procs |-> <<>>]
    /\ cards = [p \in Procs |-> <<>>]
    /\ raised = [p \in Procs |-> FALSE]
    /\ title = [p \in Procs |-> <<>>]
    /\ description = [p \in Procs |-> <<>>]
    /\ card_id = [p \in Procs |-> <<>>]
    /\ created_at = [p \in Procs |-> <<>>]
    /\ saved_files = [p \in Procs |-> <<>>]
    /\ filename = [p \in Procs |-> <<>>]
    /\ flashes = [p \in Procs |-> <<>>]
    /\ safe_card = [p \in Procs |-> <<>>]
    /\ folder = [p \in Procs |-> NoFolder]
    /\ response = [p \in Procs |-> NoResponse]
    /\ nops = 0
    /\ nreqs = 0
    /\ nfiles = 0
    /\ faults = 0
    /\ torn = FALSE
    /\ nread = [p \in Procs |-> 0]
    /\ lockedAt = [p \in Procs |-> 0]
    /\ wrote = [p \in Procs |-> 0]
    /\ batch = [p \in Procs |-> <<>>]
    /\ savedData = [p \in Procs |-> <<>>]
    /\ checked = [p \in Procs |-> {}]
    /\ contended = [p \in Procs |-> FALSE]
    /\ lastLoad = <<>>

\* the state after create_app() on a fresh data directory: ensure_dirs has
\* made DATA_DIR and UPLOADS_DIR, no log file and no card folder exists
Init ==
    /\ logExists = FALSE
    /\ logFile = <<>>
    /\ dirs = {}
    /\ disk = {}
    /\ written = <<>>
    /\ nappend = 0
    /\ lockOrder = <<>>
    /\ Idle

\* the caller runs no operation
Free(p) == pc[p] = "idle"

\* callers are interchangeable: a new call is given to the first free one
FirstFree(p) == Free(p) /\ \A q \in Procs : q < p => ~Free(q)

\* no call is at its return. pc "done" is the state in which a call hands
\* its outcome to its caller; that step is local to the caller, no other
\* step depends on it, and it is taken before any other step
Quiet == \A q \in Procs : pc[q] # "done"

Last(s) == s[Len(s)]

\* the call returns to its caller: its locals are gone
Return(p) ==
    /\ pc[p] = "done"
    /\ pc' = [pc EXCEPT ![p] = "idle"]
    /\ op' = [op EXCEPT ![p] = "none"]
    /\ card' = [card EXCEPT ![p] = NoCard]
    /\ cards' = [cards EXCEPT ![p] = <<>>]
    /\ raised' = [raised EXCEPT ![p] = FALSE]
    /\ title' = [title EXCEPT ![p] = <<>>]
    /\ description' = [description EXCEPT ![p] = <<>>]
    /\ card_id' = [card_id EXCEPT ![p] = <<>>]
    /\ created_at' = [created_at EXCEPT ![p] = <<>>]
    /\ saved_files' = [saved_files EXCEPT ![p] = <<>>]
    /\ filename' = [filename EXCEPT ![p] = <<>>]
    /\ flashes' = [flashes EXCEPT ![p] = <<>>]
    /\ safe_card' = [safe_card EXCEPT ![p] = <<>>]
    /\ folder' = [folder EXCEPT ![p] = NoFolder]
    /\ response' = [response EXCEPT ![p] = NoResponse]
    /\ nread' = [nread EXCEPT ![p] = 0]
    /\ lockedAt' = [lockedAt EXCEPT ![p] = 0]
    /\ wrote' = [wrote EXCEPT ![p] = 0]
    /\ batch' = [batch EXCEPT ![p] = <<>>]
    /\ savedData' = [savedData EXCEPT ![p] = <<>>]
    /\ checked' = [checked EXCEPT ![p] = {}]
    /\ contended' = [contended EXCEPT ![p] = FALSE]
    /\ lastLoad' = IF op[p] = "load" /\ ~raised[p] THEN cards[p] ELSE lastLoad
    /\ UNCHANGED <<logVars, lockVars, upVars, buf, boundVars, written, torn,
                   nappend, lockOrder>>

(* ------------------------------- the lock ------------------------------ *)

\* a caller that does not wait for the lock
AcquireNoWait(p) ==
    lockHolder' = [lockHolder EXCEPT ![LockPathOf(p)] = p]

\* `with lock:` blocks until the lock file is free and takes it
Acquire(p) ==
    /\ lockHolder[LockPathOf(p)] = NoProc
    /\ lockHolder' = [lockHolder EXCEPT ![LockPathOf(p)] = p]

\* a lock that is kept when the block is left by an exception
ReleaseUnlessRaised(p) ==
    lockHolder' = IF raised[p] \/ ~HoldsLock(p) THEN lockHolder
                  ELSE [lockHolder EXCEPT ![LockPathOf(p)] = NoProc]

\* leaving `with lock:`, normally or by an exception
Release(p) ==
    lockHolder' = IF HoldsLock(p)
                  THEN [lockHolder EXCEPT ![LockPathOf(p)] = NoProc]
                  ELSE lockHolder

(* ----------------------------- append_card ----------------------------- *)

\* a caller enters append_card(app, c)
StartAppend(p, c) ==
    /\ Quiet
    /\ FirstFree(p)
    /\ nops < MaxOps
    /\ nops' = nops + 1
    /\ nappend' = nappend + 1
    /\ op' = [op EXCEPT ![p] = "append"]
    /\ card' = [card EXCEPT ![p] = c]
    /\ pc' = [pc EXCEPT ![p] = "a_lock"]
    /\ UNCHANGED <<logVars, lockVars, upVars, buf, cards, raised, reqVars,
                   nreqs, nfiles, faults, written, torn, nread, lockedAt,
                   wrote, reqHist>>
    /\ UNCHANGED <<serveVars, lockOrder, lastLoad>>

AppendLock(p) ==
    /\ Quiet
    /\ pc[p] = "a_lock"
    /\ Acquire(p)
    /\ lockedAt' = [lockedAt EXCEPT ![p] = Len(logFile)]
    /\ lockOrder' = Append(lockOrder, card[p])
    /\ pc' = [pc EXCEPT ![p] = "a_open"]
    /\ UNCHANGED <<logVars, opened, upVars, callVars, reqVars, boundVars,
                   written, torn, nread, nappend, wrote, reqHist>>
    /\ UNCHANGED <<serveVars, lastLoad>>

\* open(path, "a"): creates the file when it is missing
AppendOpen(p) ==
    /\ Quiet
    /\ pc[p] = "a_open"
    /\ logExists' = TRUE
    /\ opened' = opened \cup {p}
    /\ pc' = [pc EXCEPT ![p] = "a_write"]
    /\ UNCHANGED <<logFile, lockHolder, upVars, callVars, reqVars, boundVars,
                   storeHist, reqHist>>
    /\ UNCHANGED <<serveVars, lockOrder, lastLoad>>

\* open(path, "a") raises OSError
AppendOpenFail(p) ==
    /\ Quiet
    /\ pc[p] = "a_open"
    /\ faults < MaxFaults
    /\ faults' = faults + 1
    /\ raised' = [raised EXCEPT ![p] = TRUE]
    /\ pc' = [pc EXCEPT ![p] = "a_unlock"]
    /\ UNCHANGED <<logVars, lockVars, upVars, op, card, buf, cards, reqVars,
                   nops, nreqs, nfiles, storeHist, reqHist>>
    /\ UNCHANGED <<serveVars, lockOrder, lastLoad>>

\* f.write(json.dumps(card, ensure_ascii=False) + "\n"): into the buffer
AppendWrite(p) ==
    /\ Quiet
    /\ pc[p] = "a_write"
    /\ buf' = [buf EXCEPT ![p] = CardLine(card[p])]
    /\ pc' = [pc EXCEPT ![p] = "a_close"]
    /\ UNCHANGED <<logVars, lockVars, upVars, op, card, cards, raised, reqVars,
                   boundVars, storeHist, reqHist>>
    /\ UNCHANGED <<serveVars, lockOrder, lastLoad>>

\* where a short write is modelled to stop: after the first character, in
\* the middle of the line, and before its final line feed
ShortWritePoints(line) == {1, Len(line) \div 2, Len(line) - 1}

\* the flush at the end of `with open(...)`: the operating system takes
\* only the first k characters (a short write, an event of the environment
\* like an I/O error; at most one for a line)
AppendShortWrite(p, k) ==
    /\ Quiet
    /\ pc[p] = "a_close"
    /\ faults < MaxFaults
    /\ k \in ShortWritePoints(buf[p])
    /\ buf[p] = CardLine(card[p])
    /\ faults' = faults + 1
    /\ logFile' = logFile \o SubSeq(buf[p], 1, k)
    /\ buf' = [buf EXCEPT ![p] = SubSeq(buf[p], k + 1, Len(buf[p]))]
    /\ UNCHANGED <<logExists, lockVars, upVars, pc, op, card, cards, raised,
                   reqVars, nops, nreqs, nfiles, storeHist, reqHist>>
    /\ UNCHANGED <<serveVars, lockOrder, lastLoad>>

\* the end of `with open(...)`: the rest of the buffer is written at the
\* end of the file (append mode) and the file is closed
AppendClose(p) ==
    /\ Quiet
    /\ pc[p] = "a_close"
    /\ logFile' = logFile \o buf[p]
    /\ buf' = [buf EXCEPT ![p] = <<>>]
    /\ opened' = opened \ {p}
    /\ written' = Append(written, card[p])
    /\ wrote' = [wrote EXCEPT ![p] = @ + 1]
    /\ pc' = [pc EXCEPT ![p] = "a_unlock"]
    /\ UNCHANGED <<logExists, lockHolder, upVars, op, card, cards, raised,
                   reqVars, boundVars, torn, nread, nappend, lockedAt,
                   reqHist>>
    /\ UNCHANGED <<serveVars, lockOrder, lastLoad>>

\* the flush raises OSError (disk full) after the operating system took
\* the first k characters of what was left to write (none, or up to a
\* point short of the end): they stay in the file, the rest of the buffer
\* is lost, the file is closed
AppendCloseFail(p, k) ==
    /\ Quiet
    /\ pc[p] = "a_close"
    /\ faults < MaxFaults
    /\ k \in {0} \cup {j \in ShortWritePoints(buf[p]) : j < Len(buf[p])}
    /\ faults' = faults + 1
    /\ logFile' = logFile \o SubSeq(buf[p], 1, k)
    /\ torn' = (torn \/ k > 0 \/ buf[p] # CardLine(card[p]))
    /\ buf' = [buf EXCEPT ![p] = <<>>]
    /\ opened' = opened \ {p}
    /\ raised' = [raised EXCEPT ![p] = TRUE]
    /\ pc' = [pc EXCEPT ![p] = "a_unlock"]
    /\ UNCHANGED <<logExists, lockHolder, upVars, op, card, cards, reqVars,
                   nops, nreqs, nfiles, written, nread, nappend, lockedAt,
                   wrote, reqHist>>
    /\ UNCHANGED <<serveVars, lockOrder, lastLoad>>

\* leaving `with lock:` and append_card: back in the caller, or in
\* admin_new, which an exception leaves at once
AppendUnlock(p) ==
    /\ Quiet
    /\ pc[p] = "a_unlock"
    /\ Release(p)
    /\ pc' = [pc EXCEPT ![p] = IF op[p] = "publish" /\ ~raised[p]
                               THEN "p_flash" ELSE "done"]
    /\ UNCHANGED <<logVars, opened, upVars, callVars, reqVars, boundVars,
                   storeHist, reqHist>>
    /\ UNCHANGED <<serveVars, lockOrder, lastLoad>>

(* ------------------------------ load_cards ----------------------------- *)

\* a caller enters load_cards(app)
StartLoad(p) ==
    /\ Quiet
    /\ FirstFree(p)
    /\ nops < MaxOps
    /\ nops' = nops + 1
    /\ op' = [op EXCEPT ![p] = "load"]
    /\ pc' = [pc EXCEPT ![p] = "l_exists"]
    /\ UNCHANGED <<logVars, lockVars, upVars, card, buf, cards, raised,
                   reqVars, nreqs, nfiles, faults, storeHist, reqHist>>
    /\ UNCHANGED <<serveVars, lockOrder, lastLoad>>

\* if not os.path.exists(path): return []     (before the lock is taken)
LoadExists(p) ==
    /\ Quiet
    /\ pc[p] = "l_exists"
    /\ pc' = [pc EXCEPT ![p] = IF logExists THEN "l_lock" ELSE "done"]
    /\ cards' = [cards EXCEPT ![p] = <<>>]
    /\ nread' = [nread EXCEPT ![p] = IF logExists THEN @ ELSE Len(written)]
    /\ UNCHANGED <<logVars, lockVars, upVars, op, card, buf, raised, reqVars,
                   boundVars, written, torn, nappend, lockedAt, wrote,
                   reqHist>>
    /\ UNCHANGED <<serveVars, lockOrder, lastLoad>>

LoadLock(p) ==
    /\ Quiet
    /\ pc[p] = "l_lock"
    /\ Acquire(p)
    /\ lockedAt' = [lockedAt EXCEPT ![p] = Len(logFile)]
    /\ pc' = [pc EXCEPT ![p] = "l_open"]
    /\ UNCHANGED <<logVars, opened, upVars, callVars, reqVars, boundVars,
                   written, torn, nread, nappend, wrote, reqHist>>
    /\ UNCHANGED <<serveVars, lockOrder, lastLoad>>

\* open(path, "r")
LoadOpen(p) ==
    /\ Quiet
    /\ pc[p] = "l_open"
    /\ logExists
    /\ opened' = opened \cup {p}
    /\ pc' = [pc EXCEPT ![p] = "l_read"]
    /\ UNCHANGED <<logVars, lockHolder, upVars, callVars, reqVars, boundVars,
                   storeHist, reqHist>>
    /\ UNCHANGED <<serveVars, lockOrder, lastLoad>>

\* open(path, "r") raises OSError
LoadOpenFail(p) ==
    /\ Quiet
    /\ pc[p] = "l_open"
    /\ faults < MaxFaults
    /\ faults' = faults + 1
    /\ raised' = [raised EXCEPT ![p] = TRUE]
    /\ pc' = [pc EXCEPT ![p] = "l_unlock"]
    /\ UNCHANGED <<logVars, lockVars, upVars, op, card, buf, cards, reqVars,
                   nops, nreqs, nfiles, storeHist, reqHist>>
    /\ UNCHANGED <<serveVars, lockOrder, lastLoad>>

\* the loop over the lines of the file, and the end of `with open(...)`
LoadRead(p) ==
    /\ Quiet
    /\ pc[p] = "l_read"
    /\ LET r == ReadCards(logFile)
       IN  /\ cards' = [cards EXCEPT ![p] = r.cards]
           /\ raised' = [raised EXCEPT ![p] = r.raised]
    /\ nread' = [nread EXCEPT ![p] = Len(written)]
    /\ opened' = opened \ {p}
    /\ pc' = [pc EXCEPT ![p] = "l_unlock"]
    /\ UNCHANGED <<logVars, lockHolder, upVars, op, card, buf, reqVars,
                   boundVars, written, torn, nappend, lockedAt, wrote,
                   reqHist>>
    /\ UNCHANGED <<serveVars, lockOrder, lastLoad>>

\* reading the file raises OSError; the file is closed
LoadReadFail(p) ==
    /\ Quiet
    /\ pc[p] = "l_read"
    /\ faults < MaxFaults
    /\ faults' = faults + 1
    /\ raised' = [raised EXCEPT ![p] = TRUE]
    /\ opened' = opened \ {p}
    /\ pc' = [pc EXCEPT ![p] = "l_unlock"]
    /\ UNCHANGED <<logVars, lockHolder, upVars, op, card, buf, cards, reqVars,
                   nops, nreqs, nfiles, storeHist, reqHist>>
    /\ UNCHANGED <<serveVars, lockOrder, lastLoad>>

\* leaving `with lock:`; `return cards` unless an exception is on its way
LoadUnlock(p) ==
    /\ Quiet
    /\ pc[p] = "l_unlock"
    /\ Release(p)
    /\ pc' = [pc EXCEPT ![p] = "done"]
    /\ UNCHANGED <<logVars, opened, upVars, callVars, reqVars, boundVars,
                   storeHist, reqHist>>
    /\ UNCHANGED <<serveVars, lockOrder, lastLoad>>

AppendStep(p) ==
    \/ AppendLock(p)
    \/ AppendOpen(p)
    \/ AppendOpenFail(p)
    \/ AppendWrite(p)
    \/ \E k \in ShortWritePoints(buf[p]) : AppendShortWrite(p, k)
    \/ AppendClose(p)
    \/ \E k \in {0} \cup ShortWritePoints(buf[p]) : AppendCloseFail(p, k)
    \/ AppendUnlock(p)

LoadStep(p) ==
    \/ LoadExists(p)
    \/ LoadLock(p)
    \/ LoadOpen(p)
    \/ LoadOpenFail(p)
    \/ LoadRead(p)
    \/ LoadReadFail(p)
    \/ LoadUnlock(p)

\* the log store under direct callers of append_card and load_cards
Next ==
    \E p \in Procs :
        \/ \E c \in Cards : StartAppend(p, c)
        \/ StartLoad(p)
        \/ AppendStep(p)
        \/ LoadStep(p)
        \/ Return(p)

Spec == Init /\ [][Next]_vars


\* ---------------------------------------------------------------------
\* The log store with callers that keep running: a call that can take a
\* step takes one (no caller halts), and a caller that waits for the lock
\* gets it if the lock is free again and again (fair lock acquisition)
\* ---------------------------------------------------------------------

\* the steps of load_cards other than reading the file
LoadControl(p) ==
    \/ LoadExists(p)
    \/ LoadLock(p)
    \/ LoadOpen(p)
    \/ LoadUnlock(p)

\* the caller is at the loop over the lines of the file, which it can
\* run (LoadRead) or see fail (LoadReadFail)
Reading(p) == Quiet /\ pc[p] = "l_read"

\* weak fairness of the reading step, its enabling condition spelled out:
\* a caller does not stay at the loop for ever
ReadFair(p) == ([]<>~Reading(p)) \/ ([]<><<pc'[p] # pc[p]>>_vars)

Fairness ==
    \A p \in Procs :
        /\ WF_vars(AppendStep(p))
        /\ WF_vars(LoadControl(p))
        /\ ReadFair(p)
        /\ WF_vars(Return(p))
        /\ SF_vars(AppendLock(p))
        /\ SF_vars(LoadLock(p))

FairSpec == Init /\ [][Next]_vars /\ Fairness
(* --------------------- load_cards on a damaged log --------------------- *)

\* lines json.loads rejects: the first character of a card's line, a
\* card's line cut before its closing brace, the first half of a card's
\* line with a whole card's line written after it, and text that is no
\* JSON at all
Malformed ==
    { <<"{">>,
      SubSeq(Dumps(CardB), 1, Len(Dumps(CardB)) - 1),
      SubSeq(Dumps(CardA), 1, Len(Dumps(CardA)) \div 2) \o Dumps(CardB),
      <<"#">> }

RECURSIVE CardSeqs(_)
\* the sequences of at most n cards
CardSeqs(n) ==
    IF n = 0 THEN {<<>>}
    ELSE LET shorter == CardSeqs(n - 1)
         IN  shorter \cup {Append(s, c) : s \in shorter, c \in Cards}

RECURSIVE LogText(_)
\* the text of a log holding the cards of cs, one line each
LogText(cs) ==
    IF cs = <<>> THEN <<>> ELSE CardLine(Head(cs)) \o LogText(Tail(cs))

\* the log of the cards cs with the line `bad` after its first k lines;
\* as the last line, `bad` may lack its line feed
DamagedLog(cs, k, bad, terminated) ==
    LogText(SubSeq(cs, 1, k))
        \o bad \o (IF terminated THEN <<LF>> ELSE <<>>)
        \o LogText(SubSeq(cs, k + 1, Len(cs)))

\* the service starts on a data directory whose log holds well-formed
\* lines and one malformed line
ReadInit ==
    /\ logExists = TRUE
    /\ \E cs \in CardSeqs(MaxLines), k \in 0..MaxLines, bad \in Malformed,
          terminated \in BOOLEAN :
           /\ k <= Len(cs)
           /\ terminated \/ k = Len(cs)
           /\ logFile = DamagedLog(cs, k, bad, terminated)
           /\ written = cs
           /\ nappend = Len(cs)
           /\ lockOrder = cs
    /\ dirs = {}
    /\ disk = {}
    /\ Idle

\* readers of the log
ReadNext ==
    \E p \in Procs :
        \/ StartLoad(p)
        \/ LoadStep(p)
        \/ Return(p)

ReadSpec == ReadInit /\ [][ReadNext]_vars

(* ------------------------------- admin_new ----------------------------- *)

\* the names for which os.path.exists(os.path.join(folder, name)) holds,
\* folder being UPLOADS_DIR/<id>
Names(id) == {f.name : f \in {g \in disk : g.dir = id}}

\* the publishes that are between makedirs and the end of the file loop
Ingesting(q) == op[q] = "publish" /\ pc[q] \in {"p_loop", "p_save"}

\* the values uuid.uuid4().hex[:10] is modelled to return: an id minted
\* before (a collision), or the first id of IdSeq not minted yet (ids not
\* minted yet are interchangeable)
MintChoices ==
    {IdSeq[i] : i \in {j \in DOMAIN IdSeq : j <= Cardinality(dirs) + 1}}

\* a test of the title as the form sent it
NoTitleAsSent(t) == t = <<>>

\* title = (request.form.get("title") or "").strip(); if not title:
NoTitle(t) == strip(t) = <<>>

\* the form's title is empty after strip(): flash, redirect; nothing else
PublishRejected(p, t, d) ==
    /\ Quiet
    /\ FirstFree(p)
    /\ nops < MaxOps
    /\ nreqs < MaxRequests
    /\ NoTitle(t)
    /\ nops' = nops + 1
    /\ nreqs' = nreqs + 1
    /\ op' = [op EXCEPT ![p] = "publish"]
    /\ title' = [title EXCEPT ![p] = strip(t)]
    /\ description' = [description EXCEPT ![p] = strip(d)]
    /\ flashes' = [flashes EXCEPT ![p] =
                      <<[category |-> "error", what |-> "title",
                         file |-> <<>>]>>]
    /\ pc' = [pc EXCEPT ![p] = "done"]
    /\ UNCHANGED <<logVars, lockVars, upVars, card, buf, cards, raised,
                   card_id, created_at, saved_files, filename, nfiles, faults,
                   storeHist, reqHist>>
    /\ UNCHANGED <<serveVars, lockOrder, lastLoad>>

\* the form has a title: card_id = uuid.uuid4().hex[:10], created_at is
\* the time of day, os.makedirs(card_folder, exist_ok=True)
StartPublish(p, t, d, id, now) ==
    /\ Quiet
    /\ FirstFree(p)
    /\ nops < MaxOps
    /\ nreqs < MaxRequests
    /\ ~NoTitle(t)
    /\ id \in MintChoices
    /\ nops' = nops + 1
    /\ nreqs' = nreqs + 1
    /\ op' = [op EXCEPT ![p] = "publish"]
    /\ title' = [title EXCEPT ![p] = strip(t)]
    /\ description' = [description EXCEPT ![p] = strip(d)]
    /\ card_id' = [card_id EXCEPT ![p] = id]
    /\ created_at' = [created_at EXCEPT ![p] = now]
    /\ dirs' = dirs \cup {id}
    /\ contended' =
           [q \in Procs |->
               IF q = p THEN \E r \in Procs \ {p} :
                                 Ingesting(r) /\ card_id[r] = id
               ELSE contended[q] \/ (Ingesting(q) /\ card_id[q] = id)]
    /\ pc' = [pc EXCEPT ![p] = "p_loop"]
    /\ UNCHANGED <<logVars, lockVars, disk, card, buf, cards, raised,
                   saved_files, filename, flashes, nfiles, faults, storeHist,
                   batch, savedData, checked>>
    /\ UNCHANGED <<serveVars, lockOrder, lastLoad>>

\* an entry the loop passes over without a word: `not f or not
\* getattr(f, "filename", "")`, or one whose content is empty
SkippedOrEmpty(e) == e.filename = <<>> \/ e.data = <<>>

\* an entry the loop passes over without a word:
\* `if not f or not getattr(f, "filename", "")`; a FileStorage is false
\* exactly when its filename is empty
Skipped(e) == e.filename = <<>>

\* one turn of `for f in files:` up to unique_filename: the entry is
\* passed over, or rejected with a flash, or gets the name it is saved as
PublishFile(p, e) ==
    /\ Quiet
    /\ pc[p] = "p_loop"
    /\ nfiles < MaxFiles
    /\ nfiles' = nfiles + 1
    /\ batch' = [batch EXCEPT ![p] = Append(@, e)]
    /\ LET original == e.filename
           name == secure_filename(original)
       IN  IF Skipped(e) \/ name = <<>>
           THEN UNCHANGED <<pc, filename, flashes, checked>>
           ELSE IF ~allowed_file(name)
           THEN /\ flashes' = [flashes EXCEPT ![p] =
                                  Append(@, [category |-> "error",
                                             what |-> "extension",
                                             file |-> original])]
                /\ UNCHANGED <<pc, filename, checked>>
           ELSE /\ filename' = [filename EXCEPT ![p] =
                                   unique_filename(Names(card_id[p]), name)]
                /\ checked' = [checked EXCEPT ![p] = Names(card_id[p])]
                /\ pc' = [pc EXCEPT ![p] = "p_save"]
                /\ UNCHANGED flashes
    /\ UNCHANGED <<logVars, lockVars, upVars, callVars, title, description,
                   card_id, created_at, saved_files, nops, nreqs, faults,
                   storeHist, savedData, contended>>
    /\ UNCHANGED <<serveVars, lockOrder, lastLoad>>

\* a save into one folder for all the cards
WriteShared(id, name, data) ==
    {g \in disk : g.name # name}
        \cup {[dir |-> IdA, name |-> name, data |-> data]}

\* a save that leaves the folder as it was
WriteNothing(id, name, data) == disk

\* the file UPLOADS_DIR/<id>/<name> holding `data`, made or overwritten
WriteFile(id, name, data) ==
    {g \in disk : ~(g.dir = id /\ g.name = name)}
        \cup {[dir |-> id, name |-> name, data |-> data]}

\* a list that takes its new item at the front
prepend(list, item) == <<item>> \o list

\* list.append(item)
append(list, item) == Append(list, item)

\* f.save(save_path) and saved_files.append({...})
PublishSave(p) ==
    /\ Quiet
    /\ pc[p] = "p_save"
    /\ disk' = WriteFile(card_id[p], filename[p], Last(batch[p]).data)
    /\ saved_files' = [saved_files EXCEPT ![p] =
                          append(@, StoredFile(card_id[p], filename[p]))]
    /\ savedData' = [savedData EXCEPT ![p] = Append(@, Last(batch[p]).data)]
    /\ pc' = [pc EXCEPT ![p] = "p_loop"]
    /\ UNCHANGED <<logVars, lockVars, dirs, callVars, title, description,
                   card_id, created_at, filename, flashes, boundVars,
                   storeHist, batch, checked, contended>>
    /\ UNCHANGED <<serveVars, lockOrder, lastLoad>>

\* f.save(save_path) raises OSError: the file was not opened, or it was
\* opened (made or emptied) and its content did not arrive; the exception
\* leaves admin_new
PublishSaveFail(p, opened_it) ==
    /\ Quiet
    /\ pc[p] = "p_save"
    /\ faults < MaxFaults
    /\ faults' = faults + 1
    /\ disk' = IF opened_it THEN WriteFile(card_id[p], filename[p], <<>>)
               ELSE disk
    /\ raised' = [raised EXCEPT ![p] = TRUE]
    /\ pc' = [pc EXCEPT ![p] = "done"]
    /\ UNCHANGED <<logVars, lockVars, dirs, op, card, buf, cards, reqVars,
                   nops, nreqs, nfiles, storeHist, reqHist>>
    /\ UNCHANGED <<serveVars, lockOrder, lastLoad>>

\* a handler that appends the card before it has saved the file
PublishCardEarly(p) ==
    /\ Quiet
    /\ pc[p] \in {"p_loop", "p_save"}
    /\ card' = [card EXCEPT ![p] =
                   [id |-> card_id[p], created_at |-> created_at[p],
                    title |-> title[p], description |-> description[p],
                    files |-> saved_files[p]]]
    /\ nappend' = nappend + 1
    /\ pc' = [pc EXCEPT ![p] = "a_lock"]
    /\ UNCHANGED <<logVars, lockVars, upVars, op, buf, cards, raised, reqVars,
                   boundVars, written, torn, nread, lockedAt, wrote, reqHist>>
    /\ UNCHANGED <<serveVars, lockOrder, lastLoad>>

\* the loop is over: card = {...}; append_card(app, card)
PublishCard(p) ==
    /\ Quiet
    /\ pc[p] = "p_loop"
    /\ card' = [card EXCEPT ![p] =
                   [id |-> card_id[p], created_at |-> created_at[p],
                    title |-> title[p], description |-> description[p],
                    files |-> saved_files[p]]]
    /\ nappend' = nappend + 1
    /\ pc' = [pc EXCEPT ![p] = "a_lock"]
    /\ UNCHANGED <<logVars, lockVars, upVars, op, buf, cards, raised, reqVars,
                   boundVars, written, torn, nread, lockedAt, wrote, reqHist>>
    /\ UNCHANGED <<serveVars, lockOrder, lastLoad>>

\* append_card has returned: flash(<card published>), redirect
PublishFlash(p) ==
    /\ Quiet
    /\ pc[p] = "p_flash"
    /\ flashes' = [flashes EXCEPT ![p] =
                      Append(@, [category |-> "ok", what |-> "published",
                                 file |-> <<>>])]
    /\ pc' = [pc EXCEPT ![p] = "done"]
    /\ UNCHANGED <<logVars, lockVars, upVars, callVars, title, description,
                   card_id, created_at, saved_files, filename, boundVars,
                   storeHist, reqHist>>
    /\ UNCHANGED <<serveVars, lockOrder, lastLoad>>

PublishStep(p) ==
    \/ \E e \in Entries : PublishFile(p, e)
    \/ PublishSave(p)
    \/ \E opened_it \in BOOLEAN : PublishSaveFail(p, opened_it)
    \/ PublishCard(p)
    \/ PublishFlash(p)

\* the service under requests to /admin/new
PublishNext ==
    \E p \in Procs :
        \/ \E t \in Titles, d \in Descriptions : PublishRejected(p, t, d)
        \/ \E t \in Titles, d \in Descriptions, id \in Ids,
              now \in Stamps :
               StartPublish(p, t, d, id, now)
        \/ PublishStep(p)
        \/ AppendStep(p)
        \/ Return(p)

PublishSpec == Init /\ [][PublishNext]_vars


\* ---------------------------------------------------------------------
\* Uploads of several types: request.files entries whose names differ in
\* the extension only (not allowed, allowed in upper case, no dot at all).
\* ---------------------------------------------------------------------

B_JPG == <<"b", ".", "J", "P", "G">>
NODOT == <<"R", "E", "A", "D">>

TypedEntries ==
    { [filename |-> X_EXE, data |-> <<2>>],
      [filename |-> B_JPG, data |-> <<3>>],
      [filename |-> NODOT, data |-> <<4>>] }

TypedStep(p) ==
    \/ \E e \in TypedEntries : PublishFile(p, e)
    \/ PublishSave(p)
    \/ \E opened_it \in BOOLEAN : PublishSaveFail(p, opened_it)
    \/ PublishCard(p)
    \/ PublishFlash(p)

\* the service under requests to /admin/new that upload TypedEntries
TypedNext ==
    \E p \in Procs :
        \/ \E t \in Titles, d \in Descriptions : PublishRejected(p, t, d)
        \/ \E t \in Titles, d \in Descriptions, id \in Ids,
              now \in Stamps :
               StartPublish(p, t, d, id, now)
        \/ TypedStep(p)
        \/ AppendStep(p)
        \/ Return(p)

TypedSpec == Init /\ [][TypedNext]_vars

\* ---------------------------------------------------------------------
\* GET /uploads/<card_id>/<path:filename>
\* ---------------------------------------------------------------------

HexDigits ==
    {"0", "1", "2", "3", "4", "5", "6", "7", "8", "9",
     "a", "b", "c", "d", "e", "f"}

\* sanitize_id without the test of the length
sanitize_id_any_length(value) ==
    IF value = <<>> THEN <<>>
    ELSE LET v == lower(value)
         IN  IF \A i \in DOMAIN v : v[i] \in HexDigits THEN v ELSE <<>>

\* sanitize_id(value): the id in lower case, or "" for an id not accepted
sanitize_id(value) ==
    IF value = <<>> THEN <<>>
    ELSE LET v == lower(value)
         IN  IF /\ \A i \in DOMAIN v : v[i] \in HexDigits
                /\ 8 <= Len(v)
                /\ Len(v) <= 32
             THEN v
             ELSE <<>>

\* os.path.join(app.config["UPLOADS_DIR"], safe_card)
FolderOf(safe) == <<"UPLOADS_DIR", "/">> \o safe

\* the card folder a path built by FolderOf names
CardOf(path) == SubSeq(path, 3, Len(path))

\* send_from_directory(folder, filename): the file, or 404 for none
send_from_directory(path, name) ==
    IF \E g \in disk : g.dir = CardOf(path) /\ g.name = name
    THEN [status |-> 200,
          data |-> (CHOOSE g \in disk :
                        g.dir = CardOf(path) /\ g.name = name).data]
    ELSE [status |-> 404, data |-> <<>>]

\* the ids a request can carry in <card_id>: a URL segment, not empty and
\* without "/"
RouteIds ==
    { IdA, IdB, Rep("A", IdLen), Rep("a", 7), Rep("a", 8), Rep("f", 32),
      Rep("f", 33), <<"A", "B", "C", "D", "E", "F", "1", "2">>,
      Rep("a", 7) \o <<"g">>, Rep("a", 7) \o <<".">>, <<".", ".">>,
      Rep("a", 4) \o <<SPACE>> \o Rep("a", 4) }

\* the values sanitize_id is applied to
SanitizeInputs ==
    RouteIds \cup { <<>>, Rep("a", 8) \o <<"/">> \o Rep("b", 8),
                    <<".", ".", "/">> \o Rep("a", 8) }

ServeNames == {A_PNG, B_JPG}

\* a request to the route arrives
StartServe(p, id, name) ==
    /\ Quiet
    /\ FirstFree(p)
    /\ nops < MaxOps
    /\ nops' = nops + 1
    /\ op' = [op EXCEPT ![p] = "serve"]
    /\ card_id' = [card_id EXCEPT ![p] = id]
    /\ filename' = [filename EXCEPT ![p] = name]
    /\ pc' = [pc EXCEPT ![p] = "s_sanitize"]
    /\ UNCHANGED <<logVars, lockVars, upVars, card, buf, cards, raised,
                   title, description, created_at, saved_files, flashes,
                   nreqs, nfiles, faults, storeHist, reqHist, serveVars>>
    /\ UNCHANGED <<lockOrder, lastLoad>>

\* safe_card = sanitize_id(card_id); if not safe_card: abort(404)
ServeSanitize(p) ==
    /\ Quiet
    /\ pc[p] = "s_sanitize"
    /\ safe_card' = [safe_card EXCEPT ![p] = sanitize_id(card_id[p])]
    /\ IF sanitize_id(card_id[p]) = <<>>
       THEN /\ response' = [response EXCEPT ![p] =
                               [status |-> 404, data |-> <<>>]]
            /\ pc' = [pc EXCEPT ![p] = "done"]
       ELSE /\ pc' = [pc EXCEPT ![p] = "s_send"]
            /\ UNCHANGED response
    /\ UNCHANGED <<logVars, lockVars, upVars, callVars, reqVars, boundVars,
                   storeHist, reqHist, folder>>
    /\ UNCHANGED <<lockOrder, lastLoad>>

\* folder = os.path.join(...); return send_from_directory(folder, filename)
ServeSend(p) ==
    /\ Quiet
    /\ pc[p] = "s_send"
    /\ folder' = [folder EXCEPT ![p] = FolderOf(safe_card[p])]
    /\ response' = [response EXCEPT ![p] =
                       send_from_directory(FolderOf(safe_card[p]),
                                           filename[p])]
    /\ pc' = [pc EXCEPT ![p] = "done"]
    /\ UNCHANGED <<logVars, lockVars, upVars, callVars, reqVars, boundVars,
                   storeHist, reqHist, safe_card>>
    /\ UNCHANGED <<lockOrder, lastLoad>>

\* a call of sanitize_id on its own, card_id holding its argument
CallSanitize(p, value) ==
    /\ Quiet
    /\ FirstFree(p)
    /\ nops < MaxOps
    /\ nops' = nops + 1
    /\ op' = [op EXCEPT ![p] = "sanitize_id"]
    /\ card_id' = [card_id EXCEPT ![p] = value]
    /\ safe_card' = [safe_card EXCEPT ![p] = sanitize_id(value)]
    /\ pc' = [pc EXCEPT ![p] = "done"]
    /\ UNCHANGED <<logVars, lockVars, upVars, card, buf, cards, raised,
                   title, description, created_at, saved_files, filename,
                   flashes, nreqs, nfiles, faults, storeHist, reqHist,
                   folder, response>>
    /\ UNCHANGED <<lockOrder, lastLoad>>

\* the card a publish of a.png under the id IdA has written
ServedCard ==
    [id |-> IdA, created_at |-> Stamp, title |-> <<"t">>,
     description |-> <<>>, files |-> <<StoredFile(IdA, A_PNG)>>]

\* the service either fresh or after the publish of ServedCard
ServeInit ==
    /\ \/ /\ logExists = FALSE
          /\ logFile = <<>>
          /\ dirs = {}
          /\ disk = {}
          /\ written = <<>>
          /\ nappend = 0
          /\ lockOrder = <<>>
       \/ /\ logExists = TRUE
          /\ logFile = CardLine(ServedCard)
          /\ dirs = {IdA}
          /\ disk = {[dir |-> IdA, name |-> A_PNG, data |-> <<1>>]}
          /\ written = <<ServedCard>>
          /\ nappend = 1
          /\ lockOrder = <<ServedCard>>
    /\ Idle

\* the service under requests for uploaded files
ServeNext ==
    \E p \in Procs :
        \/ \E id \in RouteIds, name \in ServeNames : StartServe(p, id, name)
        \/ ServeSanitize(p)
        \/ ServeSend(p)
        \/ \E value \in SanitizeInputs : CallSanitize(p, value)
        \/ Return(p)

ServeSpec == ServeInit /\ [][ServeNext]_vars
(* ------------------------------ the claims ----------------------------- *)

Count(s, x) == Cardinality({i \in DOMAIN s : s[i] = x})

\* s and t hold the same elements the same number of times
SameBag(s, t) ==
    /\ Len(s) = Len(t)
    /\ \A i \in DOMAIN s : Count(s, s[i]) = Count(t, s[i])

InAppend(p) == pc[p] \in {"a_lock", "a_open", "a_write", "a_close", "a_unlock"}

InLoad(p) == pc[p] \in {"l_exists", "l_lock", "l_open", "l_read", "l_unlock"}

\* the caller is between `with lock:` and its end
InCritical(p) ==
    pc[p] \in {"a_open", "a_write", "a_close", "a_unlock",
               "l_open", "l_read", "l_unlock"}

\* load_cards has returned its list to the caller
Loaded(q) == op[q] = "load" /\ pc[q] = "done" /\ ~raised[q]

\* every call of append_card made so far has returned without an exception
AllAppendsReturned ==
    /\ Len(written) = nappend
    /\ \A p \in Procs : ~InAppend(p)

\* C1: when the N calls of append_card have all returned, a load_cards
\* that reads after them returns exactly N records: the appended cards,
\* each as often as it was appended, none lost, merged or cut.
C1_ConcurrentAppendsAllLoaded ==
    \A q \in Procs :
        (Loaded(q) /\ AllAppendsReturned /\ nread[q] = nappend)
            => /\ Len(cards[q]) = nappend
               /\ SameBag(cards[q], written)

\* two callers have appended and a third call has loaded both records
C1_Witness ==
    \E q \in Procs :
        /\ Loaded(q) /\ AllAppendsReturned /\ nread[q] = nappend
        /\ nappend >= 2
        /\ Len(cards[q]) = nappend

\* C2: both operations lock the one file <log path>.lock; at most one
\* caller has the log file open, and a caller that opens, reads, writes or
\* closes the log file holds that lock.
C2_OneLockMutualExclusion ==
    /\ Cardinality(opened) <= 1
    /\ \A p \in Procs :
           (p \in opened \/ InCritical(p))
               => lockHolder[cards_csv_path \o <<".lock">>] = p

\* a caller has the log file open while another waits for the lock
C2_Witness ==
    \E p, q \in Procs :
        /\ p \in opened
        /\ pc[q] \in {"a_lock", "l_lock"}
        /\ op[p] # op[q]

\* C3: a caller that has left append_card or load_cards, normally or by an
\* I/O error raised inside the critical section, holds no lock; the lock
\* is held only by a caller inside its critical section, so it is free for
\* the next caller.
C3_LockReleasedOnExit ==
    /\ \A p \in Procs : \A l \in LockPaths :
           Free(p) => lockHolder[l] # p
    /\ \A l \in LockPaths :
           lockHolder[l] # NoProc => InCritical(lockHolder[l])

\* an append has failed inside the critical section with part of its line
\* written, and a later call holds the lock
C3_Witness ==
    \E q \in Procs :
        /\ torn
        /\ lockHolder[AppendLockPath] = q
        /\ ~raised[q]

\* C7: append_card(card) followed by load_cards() returns a sequence whose
\* last element is card, whatever the log held before.
C7_RoundTrip ==
    \A q \in Procs :
        (Loaded(q) /\ nread[q] = Len(written) /\ written # <<>>)
            => /\ cards[q] # <<>>
               /\ Last(cards[q]) = Last(written)


\* the lines of the log that json.loads rejects
BadLines ==
    {i \in DOMAIN SplitLines(logFile) :
        /\ strip(SplitLines(logFile)[i]) # <<>>
        /\ ~Loads(strip(SplitLines(logFile)[i])).ok}

\* C6: load_cards on a log of K well-formed lines and one malformed line,
\* at any position, returns exactly the K cards in file order; the line
\* that does not parse raises nothing (only an I/O error of the
\* environment makes load_cards raise).
C6_MalformedLineDropped ==
    \A q \in Procs :
        (op[q] = "load" /\ pc[q] = "done" /\ Cardinality(BadLines) = 1)
            => /\ raised[q] => faults > 0
               /\ ~raised[q] => cards[q] = written

\* load_cards has returned the two cards of a log whose second line of
\* three is malformed
C6_Witness ==
    \E q \in Procs :
        /\ Loaded(q)
        /\ BadLines = {2}
        /\ Len(SplitLines(logFile)) = 3
        /\ Len(cards[q]) = 2

IsPrefix(s, t) == Len(s) <= Len(t) /\ SubSeq(t, 1, Len(s)) = s

\* an entry of request.files that names a file of an allowed type
Storable(e) ==
    /\ e.filename # <<>>
    /\ secure_filename(e.filename) # <<>>
    /\ allowed_file(secure_filename(e.filename))

\* an entry of request.files that names a file of a type not allowed
Refused(e) ==
    /\ e.filename # <<>>
    /\ secure_filename(e.filename) # <<>>
    /\ ~allowed_file(secure_filename(e.filename))

NumberOf(b, P(_)) == Cardinality({i \in DOMAIN b : P(b[i])})

\* the publish has left the file loop and called append_card
Committing(p) ==
    op[p] = "publish" /\ (InAppend(p) \/ pc[p] = "p_flash" \/ wrote[p] > 0)

\* the publish has ended with the exception of a failed f.save
SaveFailed(p) ==
    op[p] = "publish" /\ pc[p] = "done" /\ raised[p] /\ card[p] = NoCard

\* C4: a publish calls append_card only when every file of the batch has
\* been processed, the card holding all the files saved; a publish that a
\* failed f.save ended has raised and has appended nothing to the log.
C4_AppendIsCommitPoint ==
    \A p \in Procs :
        /\ Committing(p)
               => /\ Len(saved_files[p]) = NumberOf(batch[p], Storable)
                  /\ card[p].files = saved_files[p]
        /\ SaveFailed(p)
               => /\ wrote[p] = 0
                  /\ buf[p] = <<>>
                  /\ \A i \in DOMAIN flashes[p] :
                         flashes[p][i].what # "published"

\* a publish has saved one file and has ended with the failure to save
\* the next one
C4_Witness ==
    \E p \in Procs :
        /\ SaveFailed(p)
        /\ Len(saved_files[p]) >= 1
        /\ Len(batch[p]) > Len(saved_files[p])

\* C5: the lines of the log are never changed: what the file held when an
\* append took the lock is a prefix, line by line, of what it holds when
\* the append is over; a successful append has added exactly one line at
\* the end, the card's; a successful publish has appended once; the file
\* a load reads is the file as it was when the load took the lock.
C5_AppendOnlyLog ==
    \A p \in Procs :
        LET before == SplitLines(SubSeq(logFile, 1, lockedAt[p]))
            now == SplitLines(logFile)
        IN  /\ pc[p] = "a_unlock"
                   => /\ IsPrefix(before, now)
                      /\ ~raised[p] => now = Append(before, Dumps(card[p]))
            /\ (op[p] = "publish" /\ pc[p] = "p_flash") => wrote[p] = 1
            /\ pc[p] \in {"l_open", "l_read", "l_unlock"}
                   => Len(logFile) = lockedAt[p]

\* the name `<base>_<k>.<ext>`, base and ext being the parts of name
\* before and after its last dot
Suffixed(name, k) ==
    LET d == CHOOSE i \in DOMAIN name :
                 name[i] = "." /\ \A j \in DOMAIN name : j > i => name[j] # "."
    IN  SubSeq(name, 1, d - 1) \o <<"_">> \o str(k) \o <<".">>
            \o SubSeq(name, d + 1, Len(name))

\* the names of saved_files, in order
SavedNames(p) == [i \in DOMAIN saved_files[p] |-> saved_files[p][i].name]

\* C8: a file is saved under a name that did not exist when
\* unique_filename looked; in a publish that has its card folder to itself
\* the name is still unused when the file is saved, the names of the
\* card's files are pairwise distinct, and every file saved so far still
\* holds its bytes.
C8_NeverOverwrites ==
    \A p \in Procs :
        /\ pc[p] = "p_save" => filename[p] \notin checked[p]
        /\ (pc[p] = "p_save" /\ ~contended[p])
               => filename[p] \notin Names(card_id[p])
        /\ (op[p] = "publish" /\ ~contended[p])
               => /\ \A i, j \in DOMAIN saved_files[p] :
                         i # j => saved_files[p][i].name
                                      # saved_files[p][j].name
                  /\ \A i \in DOMAIN saved_files[p] :
                         [dir |-> card_id[p], name |-> saved_files[p][i].name,
                          data |-> savedData[p][i]] \in disk

\* a publish alone in its folder has saved two files sent under one name
\* with different bytes
C8_Witness ==
    \E p \in Procs :
        /\ ~contended[p]
        /\ Len(saved_files[p]) >= 2
        /\ batch[p][1].filename = batch[p][2].filename
        /\ savedData[p][1] # savedData[p][2]

\* C9: unique_filename returns the name itself when the folder has no
\* file of that name, and otherwise <base>_<k>.<ext> for the smallest
\* k >= 2 whose name is unused; a batch a.png, a.png, a.png in a folder of
\* its own is stored as a.png, a_2.png, a_3.png.
C9_UniqueFilename ==
    \A p \in Procs :
        /\ pc[p] = "p_save"
               => LET name == secure_filename(Last(batch[p]).filename)
                  IN  IF name \notin checked[p] THEN filename[p] = name
                      ELSE \E k \in 2..(Cardinality(checked[p]) + 2) :
                               /\ filename[p] = Suffixed(name, k)
                               /\ Suffixed(name, k) \notin checked[p]
                               /\ \A j \in 2..(k - 1) :
                                      Suffixed(name, j) \in checked[p]
        /\ ( /\ ~contended[p]
             /\ Len(saved_files[p]) = 3
             /\ Cardinality(Names(card_id[p])) = 3
             /\ \A i \in DOMAIN batch[p] : batch[p][i].filename = A_PNG )
               => SavedNames(p)
                      = <<A_PNG, Suffixed(A_PNG, 2), Suffixed(A_PNG, 3)>>

\* a batch a.png, a.png, a.png has been stored as a.png, a_2.png, a_3.png
C9_Witness ==
    \E p \in Procs :
        /\ Len(batch[p]) = 3
        /\ \A i \in DOMAIN batch[p] : batch[p][i].filename = A_PNG
        /\ SavedNames(p) =
               <<A_PNG, <<"a", "_", "2", ".", "p", "n", "g">>,
                 <<"a", "_", "3", ".", "p", "n", "g">>>>

\* an entry of request.files with no filename or with empty content
NoFilenameOrEmpty(e) == e.filename = <<>> \/ e.data = <<>>

\* an entry of request.files with no filename
NoFilename(e) == e.filename = <<>>

\* an entry with a filename and some content
HasNameAndContent(e) == ~NoFilenameOrEmpty(e)

HasDot(name) == \E i \in DOMAIN name : name[i] = "."

ExtensionOf(name) ==
    LET d == CHOOSE i \in DOMAIN name :
                 /\ name[i] = "."
                 /\ \A j \in (i + 1)..Len(name) : name[j] # "."
    IN  SubSeq(name, d + 1, Len(name))

\* a name of an allowed type: it has a dot and its extension, in lower
\* case, is on the allow-list
TypeAllowed(name) ==
    HasDot(name) /\ lower(ExtensionOf(name)) \in ALLOWED_EXTENSIONS

\* an entry of request.files the loop of admin_new is to store
ToStore(e) ==
    /\ e.filename # <<>>
    /\ secure_filename(e.filename) # <<>>
    /\ TypeAllowed(secure_filename(e.filename))

\* the file of the batch the publish is about to save
Pending(p) == IF pc[p] = "p_save" THEN 1 ELSE 0

\* C11: a file whose sanitized name has no dot or an extension off the
\* allow-list (compared in lower case) is neither on disk nor among the
\* files of the card; a rejection does not end the batch: every acceptable
\* file of the batch is stored, also after a rejected one; the ext of a
\* stored file is the lower-case extension of its name and is allowed.
C11_RejectedNeverStored ==
    /\ \A g \in disk : TypeAllowed(g.name)
    /\ \A p \in Procs :
           op[p] = "publish" =>
               /\ \A i \in DOMAIN saved_files[p] :
                      /\ TypeAllowed(saved_files[p][i].name)
                      /\ saved_files[p][i].ext =
                             lower(ExtensionOf(saved_files[p][i].name))
                      /\ saved_files[p][i].ext \in ALLOWED_EXTENSIONS
               /\ ~SaveFailed(p) =>
                      Len(saved_files[p]) + Pending(p) =
                          NumberOf(batch[p], ToStore)

\* a publish has rejected x.exe and then stored b.JPG with ext jpg
C11_Witness ==
    \E p \in Procs :
        /\ op[p] = "publish"
        /\ Len(batch[p]) = 2
        /\ batch[p][1].filename = X_EXE
        /\ batch[p][2].filename = B_JPG
        /\ Len(saved_files[p]) = 1
        /\ saved_files[p][1].name = B_JPG
        /\ saved_files[p][1].ext = <<"j", "p", "g">>
        /\ \E g \in disk : g.dir = card_id[p] /\ g.name = B_JPG

\* a string sanitize_id is to accept: 8 to 32 characters, each of them a
\* hexadecimal digit once in lower case
AcceptableId(value) ==
    /\ Len(value) >= 8
    /\ Len(value) <= 32
    /\ \A i \in DOMAIN value : LowerChar(value[i]) \in HexDigits

\* the caller has got the result of sanitize_id
Sanitized(p) ==
    \/ op[p] = "sanitize_id" /\ pc[p] = "done"
    \/ op[p] = "serve" /\ pc[p] \in {"s_send", "done"}

\* C12: sanitize_id returns its argument in lower case exactly when the
\* argument has 8 to 32 characters that are all hexadecimal digits once in
\* lower case, and the empty string otherwise; an id minted by a publish is
\* returned unchanged; the route builds its folder from the returned id
\* only, and only when the id was accepted.
C12_SanitizeId ==
    \A p \in Procs :
        /\ Sanitized(p) =>
               /\ AcceptableId(card_id[p]) =>
                      safe_card[p] = [i \in DOMAIN card_id[p] |->
                                         LowerChar(card_id[p][i])]
               /\ ~AcceptableId(card_id[p]) => safe_card[p] = <<>>
               /\ card_id[p] \in Ids => safe_card[p] = card_id[p]
        /\ (op[p] = "serve" /\ ~Sanitized(p)) => folder[p] = NoFolder
        /\ folder[p] # NoFolder =>
               /\ AcceptableId(card_id[p])
               /\ folder[p] = FolderOf(safe_card[p])
               /\ \A i \in DOMAIN safe_card[p] : safe_card[p][i] \in HexDigits
        /\ (op[p] = "serve" /\ pc[p] = "done"
                /\ ~AcceptableId(card_id[p])) =>
               folder[p] = NoFolder /\ response[p].status = 404

\* the route has served a.png of the card IdA to a request that names the
\* id in upper case
C12_Witness ==
    \E p \in Procs :
        /\ op[p] = "serve"
        /\ pc[p] = "done"
        /\ card_id[p] = Rep("A", IdLen)
        /\ safe_card[p] = IdA
        /\ folder[p] = FolderOf(IdA)
        /\ response[p] = [status |-> 200, data |-> <<1>>]

\* the card records a reader of the log finds now
LogRecords == ReadCards(logFile).cards

\* C13: the ids of the card records in the log are pairwise distinct: an
\* id written to the log is not the id of a later card.
C13_LogIdsDistinct ==
    \A i, j \in DOMAIN LogRecords :
        i # j => LogRecords[i].id # LogRecords[j].id

\* the file a StoredFile of the card `id` names is on disk
Present(id, f) == \E g \in disk : g.dir = id /\ g.name = f.name

\* the caller's publish holds the record it appends, or has appended it
Recording(p) == op[p] = "publish" /\ card[p] # NoCard

\* C14: from the moment the record of a card is built and while it is
\* appended to the log, and for every record that has reached the log,
\* each file the record lists is on disk in the card's folder; the record
\* lists only files the publish has saved, none that was skipped, rejected
\* or is still to be saved.
C14_RecordFilesOnDisk ==
    /\ \A p \in Procs :
           Recording(p) =>
               /\ \A i \in DOMAIN card[p].files :
                      /\ Present(card[p].id, card[p].files[i])
                      /\ TypeAllowed(card[p].files[i].name)
               /\ Len(card[p].files) = Len(savedData[p])
               /\ Len(card[p].files) = NumberOf(batch[p], ToStore)
               /\ pc[p] # "p_save"
    /\ \A k \in DOMAIN written :
           \A i \in DOMAIN written[k].files :
               Present(written[k].id, written[k].files[i])

\* the record of a card with one file has reached the log, the batch
\* holding a skipped and a rejected entry too
C14_Witness ==
    \E p \in Procs :
        /\ Recording(p)
        /\ wrote[p] = 1
        /\ Len(card[p].files) = 1
        /\ Len(batch[p]) = 3
        /\ \E i \in DOMAIN batch[p] : batch[p][i].filename = <<>>
        /\ \E i \in DOMAIN batch[p] : batch[p][i].filename = X_EXE
        /\ Last(written) = card[p]

\* the caller's publish was refused for its empty title
TitleRefused(p) == op[p] = "publish" /\ title[p] = <<>>

\* C15: a step that starts a publish whose title is empty after trimming
\* ends it at once with the error flashed and mints no id, makes no
\* folder, writes no file and appends no record: the log and the uploads
\* are as they were; nothing else happens in that publish until it returns.
C15_EmptyTitleTouchesNothing ==
    [][\A p \in Procs :
           TitleRefused(p)' =>
               /\ logExists' = logExists
               /\ logFile' = logFile
               /\ dirs' = dirs
               /\ disk' = disk
               /\ nappend' = nappend
               /\ pc'[p] = "done"
               /\ card_id'[p] = <<>>
               /\ card'[p] = NoCard
               /\ saved_files'[p] = <<>>
               /\ flashes'[p] = <<[category |-> "error", what |-> "title",
                                   file |-> <<>>]>>]_vars

\* a publish with a title of blanks was refused after another publish had
\* stored a file and its record
C15_Witness ==
    \E p \in Procs :
        /\ TitleRefused(p)
        /\ pc[p] = "done"
        /\ disk # {}
        /\ written # <<>>

\* s holds elements of t in the order they have in t
IsSubsequence(s, t) ==
    \E f \in [DOMAIN s -> DOMAIN t] :
        /\ \A i, j \in DOMAIN s : i < j => f[i] < f[j]
        /\ \A i \in DOMAIN s : t[f[i]] = s[i]

\* the cards whose append_card calls completed their line, up to the
\* moment the caller read the file
WrittenWhenRead(q) == SubSeq(written, 1, nread[q])

\* C16: load_cards returns the empty list when the log file does not
\* exist; otherwise it returns the records it parsed in the order of the
\* file, which is the order in which their append_card calls held the
\* lock, oldest first: all of them when no append has left a partial line.
C16_LoadInLockOrder ==
    \A q \in Procs :
        Loaded(q) =>
            /\ ~logExists => cards[q] = <<>>
            /\ IsSubsequence(cards[q], lockOrder)
            /\ ~torn => cards[q] = WrittenWhenRead(q)

\* a load has returned CardB before CardA, the order of their appends
C16_Witness ==
    \E q \in Procs :
        /\ Loaded(q)
        /\ lockOrder = <<CardB, CardA>>
        /\ cards[q] = <<CardB, CardA>>

\* a load on a service without a log file has returned the empty list
C16_WitnessNoLog ==
    \E q \in Procs : Loaded(q) /\ ~logExists /\ cards[q] = <<>>

\* the entries of the batch that are to be stored, in submission order
Kept(p) == SelectSeq(batch[p], ToStore)

\* C17: the files of a card are the batch without its skipped and
\* rejected entries, in submission order: while the loop runs and when the
\* record is built, the i-th StoredFile stands for the i-th acceptable
\* entry of the batch, whose bytes the file of that name holds (in a
\* publish that has its folder to itself), and the record lists exactly
\* these StoredFiles.
C17_FilesInSubmissionOrder ==
    \A p \in Procs :
        (op[p] = "publish" /\ ~SaveFailed(p)) =>
            /\ Len(saved_files[p]) + Pending(p) = Len(Kept(p))
            /\ \A i \in DOMAIN saved_files[p] :
                   /\ savedData[p][i] = Kept(p)[i].data
                   /\ ~contended[p] =>
                          [dir |-> card_id[p],
                           name |-> saved_files[p][i].name,
                           data |-> Kept(p)[i].data] \in disk
            /\ Recording(p) => card[p].files = saved_files[p]

\* a record lists two files of different bytes, stored before and after
\* a rejected entry of the same batch
C17_Witness ==
    \E p \in Procs :
        /\ Recording(p)
        /\ ~contended[p]
        /\ Len(batch[p]) = 3
        /\ batch[p][2].filename = X_EXE
        /\ Len(card[p].files) = 2
        /\ batch[p][1].data # batch[p][3].data

\* the list is made of whole records of append_card calls
WholeRecords(list) ==
    \A i \in DOMAIN list : \E k \in DOMAIN lockOrder : list[i] = lockOrder[k]

\* C18: the list a load_cards call returns, also one that ran along with
\* calls of append_card, is a prefix of the records the log holds from
\* then on, and holds whole records only; a load that tested for the file
\* before the first append made it returns the empty list.
C18_LoadReturnsPrefix ==
    /\ IsPrefix(lastLoad, LogRecords)
    /\ WholeRecords(lastLoad)
    /\ \A q \in Procs :
           Loaded(q) =>
               /\ IsPrefix(cards[q], LogRecords)
               /\ WholeRecords(cards[q])
               /\ lockedAt[q] = 0 /\ nread[q] = 0 => cards[q] = <<>>

\* C18 where no append has left a partial line in the log
C18_PrefixUnlessTorn == torn \/ C18_LoadReturnsPrefix

\* the caller is inside a call of append_card or load_cards
Started(p) == pc[p] # "idle"

\* C19: under FairSpec every call of append_card or load_cards that has
\* started returns to its caller: no call waits for ever, whether for the
\* lock or for anything else.
C19_EveryCallReturns ==
    \A p \in Procs : Started(p) ~> ~Started(p)

\* a load waits for the lock while an append that holds it is between
\* f.write and the end of `with open(...)`
C19_Witness ==
    \E p, q \in Procs :
        /\ op[p] = "load" /\ pc[p] = "l_lock"
        /\ op[q] = "append" /\ pc[q] = "a_close"
        /\ lockHolder[AppendLockPath] = q

\* the files that a step makes, changes or removes
Touched == (disk \ disk') \cup (disk' \ disk)

\* the step is the f.save of the caller's publish
SavesNow(p) == op[p] = "publish" /\ pc[p] = "p_save" /\ pc'[p] # "p_save"

\* a record of `log` lists the file `name` of the card `id`
Referenced(log, id, name) ==
    \E k \in DOMAIN log :
        /\ log[k].id = id
        /\ \E i \in DOMAIN log[k].files : log[k].files[i].name = name

\* C20: a file is made or changed only by the f.save of a publish and only
\* in the folder of that publish's own id, and no file is ever removed; a
\* folder is made only for the id of the publish that starts; the log is
\* written only by a publish that has left its file loop, once; the files
\* a publish saved before a later save failed are still on disk, and (the
\* publish having its folder to itself) no record of the log lists them.
C20_WritesOnlyOwnFolder ==
    [][/\ \A g \in Touched :
              \E p \in Procs : SavesNow(p) /\ g.dir = card_id[p]
       /\ \A g \in disk : \E h \in disk' : h.dir = g.dir /\ h.name = g.name
       /\ dirs \subseteq dirs'
       /\ \A d \in dirs' \ dirs :
              \E p \in Procs : op[p] = "none" /\ card_id'[p] = d
       /\ logFile' # logFile =>
              \E p \in Procs :
                  /\ pc[p] = "a_close"
                  /\ wrote[p] = 0
                  /\ card[p].files = saved_files[p]
       /\ \A p \in Procs :
              SaveFailed(p)' =>
                  /\ wrote'[p] = 0
                  /\ \A i \in DOMAIN saved_files'[p] :
                         /\ \E g \in disk' :
                                /\ g.dir = card_id'[p]
                                /\ g.name = saved_files'[p][i].name
                                /\ ~contended'[p] =>
                                       g.data = savedData'[p][i]
                         /\ ~contended'[p] =>
                                ~Referenced(written', card_id'[p],
                                            saved_files'[p][i].name)]_vars

\* a publish has saved a file and has ended with the failure of its next
\* save, while the folder of another card holds a file and the log that
\* card's record
C20_Witness ==
    \E p \in Procs :
        /\ SaveFailed(p)
        /\ Len(saved_files[p]) >= 1
        /\ \E g \in disk : g.dir # card_id[p]
        /\ \E k \in DOMAIN written : written[k].id # card_id[p]
        /\ \E g \in disk :
               g.dir = card_id[p] /\ g.name = saved_files[p][1].name
====
